---- MODULE Spec2Model ----
(***************************************************************************)
(* kombine/sampler.py: the ensemble sampler (class Sampler).               *)
(*                                                                         *)
(* The state is the Sampler object's fields, the locals of the sample      *)
(* call in progress, the locals of the burnin call in progress and a few   *)
(* history variables recording what the last call did.  One action per     *)
(* statement group of sample(), so that an exception or a                  *)
(* KeyboardInterrupt can leave the call at each of the places where        *)
(* Python can raise it; one action per statement group of burnin().        *)
(*                                                                         *)
(* Spec:       sample and rollback called in any order.                    *)
(* SpecBurnin: successful sample calls, then one burnin call.              *)
(***************************************************************************)
EXTENDS Integers, Sequences, FiniteSets

\* ------------------------------------------------------------------ bounds
NWalkers == 1        \* nwalkers of the modelled Sampler
MaxPos   == 1        \* positions are 0..MaxPos (dim = 1)
MaxLen   == 2        \* no call is started that would make a history longer
MaxIter  == 2        \* largest `iterations` argument of a sample call
MaxPools == 2        \* pool instances are numbered 1..MaxPools

Walkers == 1..NWalkers
Pos     == 0..MaxPos
Batches == [Walkers -> Pos]

\* Python's None, for array-valued fields and arguments
None == << >>

\* max_steps = None, the default: no number of steps
NoMax == -1

\* log(0) as numpy computes it: -inf, below every log-ratio of the model
NegInf == -100
\* the values np.log(uniform_draws) takes: log(u) < 0 for u in (0,1), -inf for u = 0
LogU == {NegInf, -2, -1}

Min(a, b) == IF a < b THEN a ELSE b

\* np.zeros((n, nwalkers...)): n rows of zeros
ZeroRows(n) == [j \in 1..n |-> [w \in Walkers |-> 0]]
ZeroFlags(n) == [j \in 1..n |-> [w \in Walkers |-> FALSE]]

\* the caller-supplied log-posterior function, when it returns
GetLnPost(x) == x

\* the proposal density fitted to an ensemble, evaluated at x
KdeEval(kde, x) == Cardinality({w \in Walkers : kde[w] = x})

\* optimized_kde(p, pool): the density fitted to the ensemble p
OptimizedKde(ens) == ens

\* GetLnProbWrapper mapped over a batch: column 0 and column 1 of `results`
ResultsLnPost(batch) == [w \in Walkers |-> GetLnPost(batch[w])]
ResultsLnProp(kde, batch) == [w \in Walkers |-> KdeEval(kde, batch[w])]

VARIABLES
  processes, pool, closed, nextPool,      \* the worker pool (0 is None)
  iterations, _kde,
  _chain, _lnpost, _lnprop, _acceptance,  \* the four histories
  _failed_p,
  pc,                                     \* where the sample call is; "idle": with the caller
  p0, lnpost0, lnprop0,                   \* the caller's arrays passed to the sample call
  p, lnpost, lnprop,                      \* locals of sample
  p_p, lnpost_p, lnprop_p, ln_mh_ratio, acc,
  returned,                               \* the walkers whose evaluation of the batch p_p has returned
  uniform_log,                            \* np.log(uniform_draws), per walker (0: none drawn for it)
  i, n_iter, update_interval,
  m,                                      \* the pool the call maps over; kept after the call
  result,                                 \* how the last operation ended ("running": in a call)
  after,                                  \* in a call: how the operation before it ended
  lens0, it0,                             \* the histories' lengths and iterations on entry of the last sample call
  raised,                                 \* the batch whose evaluation raised in the last operation
  rb_k,                                   \* the argument of the last operation, when a rollback
  args0,                                  \* in a call: the contents of p0, lnpost0, lnprop0 on entry
  prev,                                   \* p, lnpost, lnprop before the accept step of the iteration being stored
  ret,                                    \* the tuple the last sample call returned
  b_pc,                                   \* where the burnin call is; "none": no burnin call in progress
  burnin_p0, burnin_lnpost0, burnin_lnprop0,   \* burnin's p0, lnpost0, lnprop0
  burnin_update_interval, max_steps,      \* burnin's arguments (max_steps: NoMax or a number)
  test_interval, start, max_iter, burned_in, window,   \* locals of burnin
  cycles,                                 \* the sample calls the burnin call has made
  burn_result,                            \* how the burnin call ended ("none": not called, "running")
  burn_ret                                \* the tuple the burnin call returned

fields == <<processes, pool, closed, nextPool, iterations, _kde,
            _chain, _lnpost, _lnprop, _acceptance, _failed_p>>
locals == <<p0, lnpost0, lnprop0, p, lnpost, lnprop,
            p_p, lnpost_p, lnprop_p, ln_mh_ratio, acc, returned, uniform_log,
            i, n_iter, update_interval, m>>
history == <<result, after, lens0, it0, raised, rb_k, args0, prev, ret>>
burnin == <<b_pc, burnin_p0, burnin_lnpost0, burnin_lnprop0,
            burnin_update_interval, max_steps,
            test_interval, start, max_iter, burned_in, window,
            cycles, burn_result, burn_ret>>
vars == <<fields, pc, locals, history, burnin>>

\* ------------------------------------------------------------ construction
\* Sampler.__init__: processes is None (0) or 1; pool is None (0), or instance 1:
\* the caller's pool, or the Pool(processes) made when processes is not 1 and no
\* pool is given.
Init ==
  /\ processes \in {0, 1}
  /\ \E given \in BOOLEAN :
       pool = IF given \/ processes # 1 THEN 1 ELSE 0
  /\ nextPool = 2
  /\ closed = {}
  /\ iterations = 0
  /\ _kde = None
  /\ _chain = << >> /\ _lnpost = << >> /\ _lnprop = << >> /\ _acceptance = << >>
  /\ _failed_p = None
  /\ pc = "idle"
  /\ p0 = None /\ lnpost0 = None /\ lnprop0 = None
  /\ p = None /\ lnpost = None /\ lnprop = None
  /\ p_p = None /\ lnpost_p = None /\ lnprop_p = None
  /\ ln_mh_ratio = None /\ acc = None
  /\ returned = {} /\ uniform_log = None
  /\ args0 = None /\ prev = None /\ ret = None
  /\ i = 0 /\ n_iter = 0 /\ update_interval = 1 /\ m = 0
  /\ result = "none" /\ after = "none" /\ lens0 = <<0, 0, 0, 0>> /\ it0 = 0
  /\ raised = None /\ rb_k = 0
  /\ b_pc = "none"
  /\ burnin_p0 = None /\ burnin_lnpost0 = None /\ burnin_lnprop0 = None
  /\ burnin_update_interval = 1 /\ max_steps = NoMax
  /\ test_interval = 0 /\ start = 0 /\ max_iter = 0 /\ burned_in = FALSE /\ window = 0
  /\ cycles = 0 /\ burn_result = "none" /\ burn_ret = None

\* len(chain), len(lnpost), len(lnprop), len(acceptance)
Lens == <<Len(_chain), Len(_lnpost), Len(_lnprop), Len(_acceptance)>>

\* ---------------------------------------------------------------- rollback
\* s[:k + 1]: a slice that keeps one row too many
TruncateOneMore(s, k) == SubSeq(s, 1, Min(k + 1, Len(s)))

\* s[:k] for k >= 0
Truncate(s, k) == SubSeq(s, 1, Min(k, Len(s)))

\* "if self.processes != 1: self.pool.close(); self.pool = Pool(self.processes)"
ResetPool ==
  IF processes # 1
  THEN /\ closed' = closed \cup {pool}
       /\ pool' = nextPool
       /\ nextPool' = nextPool + 1
  ELSE UNCHANGED <<pool, closed, nextPool>>

\* the body of Sampler.rollback(iteration); the counter `iterations` is not assigned
RollbackTo(k) ==
  /\ _chain' = Truncate(_chain, k)
  /\ _lnpost' = Truncate(_lnpost, k)
  /\ _lnprop' = Truncate(_lnprop, k)
  /\ _acceptance' = Truncate(_acceptance, k)
  /\ ResetPool
  /\ UNCHANGED <<processes, iterations, _kde>>

\* a new pool instance is available (pool instances are numbered up to MaxPools)
CanRollback == processes = 1 \/ nextPool <= MaxPools

\* rollback(k) called by the caller
Rollback(k) ==
  /\ pc = "idle"
  /\ CanRollback
  /\ RollbackTo(k)
  /\ result' = "rollback"
  /\ rb_k' = k
  /\ lens0' = <<0, 0, 0, 0>> /\ it0' = 0 /\ i' = 0 /\ n_iter' = 0
  /\ raised' = None
  /\ ret' = None
  /\ UNCHANGED <<_failed_p, pc, p0, lnpost0, lnprop0, p, lnpost, lnprop,
                 p_p, lnpost_p, lnprop_p, ln_mh_ratio, acc, returned, uniform_log,
                 update_interval, m, after, args0, prev>>
  /\ UNCHANGED burnin

\* ------------------------------------------------------------------ sample
\* control goes back to the caller, with the tuple of line 292 when the call
\* returns: the call's parameters and array locals are dropped
Finish(res) ==
  /\ pc' = "idle"
  /\ result' = res
  /\ after' = "none"
  /\ ret' = IF res = "ok" THEN <<p, lnpost, lnprop>> ELSE None
  /\ p0' = None /\ lnpost0' = None /\ lnprop0' = None /\ args0' = None
  /\ p' = None /\ lnpost' = None /\ lnprop' = None
  /\ p_p' = None /\ lnpost_p' = None /\ lnprop_p' = None
  /\ ln_mh_ratio' = None /\ acc' = None
  /\ returned' = {} /\ uniform_log' = None /\ prev' = None
  /\ update_interval' = 1
  /\ m' = m

MaxInterval == 2     \* largest update_interval argument

\* the lnpost0 / lnprop0 a caller passes: None, or the values of its p0 (those a
\* previous call returned for it)
LnPost0(arg_p0, given) == IF given /\ arg_p0 # None THEN ResultsLnPost(arg_p0) ELSE None
LnProp0(kde, arg_p0, given) == IF given /\ arg_p0 # None THEN ResultsLnProp(kde, arg_p0) ELSE None

\* lines 215-216: the proposal the call works with
Proposal(kde, ens) == IF kde = None THEN OptimizedKde(ens) ELSE kde

\* lines 204-219, entered with the caller's arrays (None for an argument left
\* out): p, m, the first proposal, lnpost and lnprop.  p is a copy of p0
\* (np.array), lnpost and lnprop are the caller's arrays themselves.
Sample(arg_p0, arg_lnpost0, arg_lnprop0, k, ui) ==
  /\ pc = "idle"
  /\ lens0' = Lens /\ it0' = iterations
  /\ i' = 0 /\ n_iter' = k
  /\ rb_k' = IF result = "rollback" THEN rb_k ELSE 0
  /\ raised' = None
  /\ IF arg_p0 = None /\ _kde = None
     THEN \* self.draw on a Sampler without a proposal: AttributeError
          /\ Finish("AttributeError")
          /\ UNCHANGED fields
     ELSE /\ \E first \in (IF arg_p0 = None THEN Batches ELSE {arg_p0}) :
               /\ p' = first
               /\ _kde' = Proposal(_kde, first)
          /\ m' = pool
          /\ p0' = arg_p0 /\ lnpost0' = arg_lnpost0 /\ lnprop0' = arg_lnprop0
          /\ args0' = <<arg_p0, arg_lnpost0, arg_lnprop0>>
          /\ lnpost' = arg_lnpost0
          /\ lnprop' = arg_lnprop0
          /\ update_interval' = ui
          /\ pc' = IF lnpost' = None \/ lnprop' = None THEN "init_eval" ELSE "alloc_chain"
          /\ result' = "running"
          /\ after' = IF result = "EvalError" THEN "EvalError"
                       ELSE IF result = "rollback" THEN "rollback" ELSE "none"
          /\ ret' = None
          /\ UNCHANGED <<processes, pool, closed, nextPool, iterations,
                         _chain, _lnpost, _lnprop, _acceptance, _failed_p,
                         p_p, lnpost_p, lnprop_p, ln_mh_ratio, acc,
                         returned, uniform_log, prev>>

\* sample(p0, lnpost0, lnprop0, iterations = k, update_interval = ui) called by
\* the user of the Sampler
SampleCall(arg_p0, given_lnpost0, given_lnprop0, k, ui) ==
  /\ Len(_chain) + k <= MaxLen
  /\ Sample(arg_p0, LnPost0(arg_p0, given_lnpost0),
            LnProp0(Proposal(_kde, arg_p0), arg_p0, given_lnprop0), k, ui)
  /\ UNCHANGED burnin

\* lines 221-225, the evaluation returns
InitEval ==
  /\ pc = "init_eval"
  /\ lnpost' = IF lnpost = None THEN ResultsLnPost(p) ELSE lnpost
  /\ lnprop' = IF lnprop = None THEN ResultsLnProp(_kde, p) ELSE lnprop
  /\ pc' = "alloc_chain"
  /\ UNCHANGED <<fields, p0, lnpost0, lnprop0, p, p_p, lnpost_p, lnprop_p,
                 ln_mh_ratio, acc, returned, uniform_log,
                 i, n_iter, update_interval, m, history>>
  /\ UNCHANGED burnin

\* lines 221-225, the posterior function raises: nothing catches it
InitEvalRaise ==
  /\ pc = "init_eval"
  /\ raised' = p
  /\ Finish("InitEvalError")
  /\ UNCHANGED <<fields, i, n_iter, lens0, it0, rb_k>>
  /\ UNCHANGED burnin

\* the position after a pre-allocation or an iteration: the next iteration or the return
Continue(done) ==
  IF done < n_iter
  THEN /\ pc' = "draw"
       /\ UNCHANGED <<result, after, args0, ret>>
       /\ UNCHANGED <<p0, lnpost0, lnprop0, p, lnpost, lnprop,
                      p_p, lnpost_p, lnprop_p, ln_mh_ratio, acc, returned,
                      update_interval, m>>
       /\ uniform_log' = None /\ prev' = None
  ELSE Finish("ok")

\* lines 228-229
AllocChain ==
  /\ pc = "alloc_chain"
  /\ _chain' = _chain \o ZeroRows(n_iter)
  /\ pc' = "alloc_lnpost"
  /\ UNCHANGED <<processes, pool, closed, nextPool, iterations, _kde,
                 _lnpost, _lnprop, _acceptance, _failed_p, locals, history>>
  /\ UNCHANGED burnin

\* lines 230-231
AllocLnpost ==
  /\ pc = "alloc_lnpost"
  /\ _lnpost' = _lnpost \o ZeroRows(n_iter)
  /\ pc' = "alloc_lnprop"
  /\ UNCHANGED <<processes, pool, closed, nextPool, iterations, _kde,
                 _chain, _lnprop, _acceptance, _failed_p, locals, history>>
  /\ UNCHANGED burnin

\* lines 232-233
AllocLnprop ==
  /\ pc = "alloc_lnprop"
  /\ _lnprop' = _lnprop \o ZeroRows(n_iter)
  /\ pc' = "alloc_acceptance"
  /\ UNCHANGED <<processes, pool, closed, nextPool, iterations, _kde,
                 _chain, _lnpost, _acceptance, _failed_p, locals, history>>
  /\ UNCHANGED burnin

\* lines 234-237
AllocAcceptance ==
  /\ pc = "alloc_acceptance"
  /\ _acceptance' = _acceptance \o ZeroFlags(n_iter)
  /\ Continue(0)
  /\ UNCHANGED <<processes, pool, closed, nextPool, iterations, _kde,
                 _chain, _lnpost, _lnprop, _failed_p, i, n_iter,
                 lens0, it0, raised, rb_k>>
  /\ UNCHANGED burnin

\* a KeyboardInterrupt before the loop's try statement: nothing catches it
InterruptBeforeLoop ==
  /\ pc \in {"init_eval", "alloc_chain", "alloc_lnpost", "alloc_lnprop", "alloc_acceptance"}
  /\ Finish("KeyboardInterrupt")
  /\ UNCHANGED <<fields, i, n_iter, lens0, it0, raised, rb_k>>
  /\ UNCHANGED burnin

\* ------------------------------------------------------- one iteration
\* line 240, self.draw(self.nwalkers) returns a candidate batch
Draw ==
  /\ pc = "draw"
  /\ p_p' \in Batches
  /\ returned' = {}
  /\ pc' = "eval"
  /\ UNCHANGED <<fields, p0, lnpost0, lnprop0, p, lnpost, lnprop,
                 lnpost_p, lnprop_p, ln_mh_ratio, acc, uniform_log,
                 i, n_iter, update_interval, m, history>>
  /\ UNCHANGED burnin

\* line 240, the draw raises: it is outside the inner try, and the outer try
\* catches KeyboardInterrupt only
DrawRaise ==
  /\ pc = "draw"
  /\ Finish("DrawError")
  /\ UNCHANGED <<fields, i, n_iter, lens0, it0, raised, rb_k>>
  /\ UNCHANGED burnin

\* line 244, inside m(...): the evaluation of walker w's candidate returns.  The
\* map (the builtin, or the pool's) hands out one evaluation per walker.
EvalWorker(w) ==
  /\ pc = "eval"
  /\ w \notin returned
  /\ returned' = returned \cup {w}
  /\ UNCHANGED <<fields, pc, p0, lnpost0, lnprop0, p, lnpost, lnprop,
                 p_p, lnpost_p, lnprop_p, ln_mh_ratio, acc, uniform_log,
                 i, n_iter, update_interval, m, history>>
  /\ UNCHANGED burnin

\* lines 244-248, m(...) returns once every evaluation of the batch has
\* returned: the results are read
Eval ==
  /\ pc = "eval"
  /\ returned = Walkers
  /\ lnpost_p' = ResultsLnPost(p_p)
  /\ lnprop_p' = ResultsLnProp(_kde, p_p)
  /\ pc' = "accept"
  /\ UNCHANGED <<fields, p0, lnpost0, lnprop0, p, lnpost, lnprop, p_p,
                 ln_mh_ratio, acc, returned, uniform_log,
                 i, n_iter, update_interval, m, history>>
  /\ UNCHANGED burnin

\* lines 251-256, an evaluation of the batch raises
EvalRaise ==
  /\ pc = "eval"
  /\ CanRollback
  /\ RollbackTo(iterations)
  /\ _failed_p' = p_p
  /\ raised' = p_p
  /\ Finish("EvalError")
  /\ UNCHANGED <<i, n_iter, lens0, it0, rb_k>>
  /\ UNCHANGED burnin

\* ratio > np.log(u), with np.log(0) = -inf
GreaterThanLog(ratio, logu) == ratio > logu

\* the uniform-draw result assigned to every walker, not only to acc[worse]
AcceptFlagUnmasked(ratio, logu) == ratio <= 0 /\ GreaterThanLog(ratio, logu)

\* lines 262-268 for one walker: accepted when the ratio is positive, and
\* otherwise by the uniform draw made for it
AcceptFlag(ratio, logu) == IF ratio > 0 THEN TRUE ELSE GreaterThanLog(ratio, logu)

\* line 259
MHRatio(w) == lnpost_p[w] - lnpost[w] + lnprop[w] - lnprop_p[w]

\* a[acc] = a_p[acc] where every walker is assigned, accepted or not
MovedAll(flags, new, old) == new

\* a[acc] = a_p[acc]: the accepted walkers take the candidate's value, in place
Moved(flags, new, old) == [w \in Walkers |-> IF flags[w] THEN new[w] ELSE old[w]]

\* lines 218-224: the local is the caller's array itself when one was passed,
\* so that an assignment in place shows in the caller's array
SameArray(arg, local) == IF arg = None THEN arg ELSE local

\* lines 259-274.  uniform_draws has one draw per walker of `worse`.
Accept ==
  /\ pc = "accept"
  /\ ln_mh_ratio' = [w \in Walkers |-> MHRatio(w)]
  /\ \E logu \in [Walkers -> LogU] :
       /\ uniform_log' = [w \in Walkers |-> IF MHRatio(w) > 0 THEN 0 ELSE logu[w]]
       /\ acc' = [w \in Walkers |-> AcceptFlag(MHRatio(w), logu[w])]
  /\ p' = Moved(acc', p_p, p)
  /\ lnpost' = Moved(acc', lnpost_p, lnpost)
  /\ lnprop' = Moved(acc', lnprop_p, lnprop)
  /\ lnpost0' = SameArray(lnpost0, lnpost')
  /\ lnprop0' = SameArray(lnprop0, lnprop')
  /\ prev' = <<p, lnpost, lnprop>>
  /\ pc' = "store_chain"
  /\ UNCHANGED <<fields, p0, p_p, lnpost_p, lnprop_p, returned,
                 i, n_iter, update_interval, m,
                 result, after, lens0, it0, raised, rb_k, args0, ret>>
  /\ UNCHANGED burnin

\* a[self.iterations] = row, or IndexError when the array has no such row
CanStore(a) == iterations < Len(a)

\* a[-1] = row: the row written to the last pre-allocated slot
StoredLast(a, row) == [a EXCEPT ![Len(a)] = row]

\* a[self.iterations] = row
Stored(a, row) == [a EXCEPT ![iterations + 1] = row]

\* an exception that is not a KeyboardInterrupt raised in the loop outside the
\* inner try: nothing catches it
Escape(res) ==
  /\ Finish(res)
  /\ UNCHANGED <<i, n_iter, lens0, it0, raised, rb_k>>

\* line 277
StoreChain ==
  /\ pc = "store_chain"
  /\ IF CanStore(_chain)
     THEN /\ _chain' = Stored(_chain, p)
          /\ pc' = "store_lnpost"
          /\ UNCHANGED <<locals, history>>
     ELSE Escape("IndexError") /\ UNCHANGED _chain
  /\ UNCHANGED <<processes, pool, closed, nextPool, iterations, _kde,
                 _lnpost, _lnprop, _acceptance, _failed_p>>
  /\ UNCHANGED burnin

\* line 278
StoreLnpost ==
  /\ pc = "store_lnpost"
  /\ IF CanStore(_lnpost)
     THEN /\ _lnpost' = Stored(_lnpost, lnpost)
          /\ pc' = "store_lnprop"
          /\ UNCHANGED <<locals, history>>
     ELSE Escape("IndexError") /\ UNCHANGED _lnpost
  /\ UNCHANGED <<processes, pool, closed, nextPool, iterations, _kde,
                 _chain, _lnprop, _acceptance, _failed_p>>
  /\ UNCHANGED burnin

\* line 279
StoreLnprop ==
  /\ pc = "store_lnprop"
  /\ IF CanStore(_lnprop)
     THEN /\ _lnprop' = Stored(_lnprop, lnprop)
          /\ pc' = "store_acceptance"
          /\ UNCHANGED <<locals, history>>
     ELSE Escape("IndexError") /\ UNCHANGED _lnprop
  /\ UNCHANGED <<processes, pool, closed, nextPool, iterations, _kde,
                 _chain, _lnpost, _acceptance, _failed_p>>
  /\ UNCHANGED burnin

\* line 280
StoreAcceptance ==
  /\ pc = "store_acceptance"
  /\ IF CanStore(_acceptance)
     THEN /\ _acceptance' = Stored(_acceptance, acc)
          /\ pc' = "incr"
          /\ UNCHANGED <<locals, history>>
     ELSE Escape("IndexError") /\ UNCHANGED _acceptance
  /\ UNCHANGED <<processes, pool, closed, nextPool, iterations, _kde,
                 _chain, _lnpost, _lnprop, _failed_p>>
  /\ UNCHANGED burnin

\* "n % update_interval == 0" read as a test of n + 1
UpdateDueOneLate(n, ui) == (n + 1) % ui = 0

\* line 285: self.iterations % update_interval == 0, for the counter value n
UpdateDue(n, ui) == n % ui = 0

\* lines 282-285 and, when no refit is due, the loop header or the return
Incr ==
  /\ pc = "incr"
  /\ iterations' = iterations + 1
  /\ i' = i + 1
  /\ IF UpdateDue(iterations + 1, update_interval)
     THEN /\ pc' = "refit"
          /\ UNCHANGED <<p0, lnpost0, lnprop0, p, lnpost, lnprop,
                         p_p, lnpost_p, lnprop_p, ln_mh_ratio, acc,
                         returned, uniform_log,
                         update_interval, m, result, after, args0, prev, ret>>
     ELSE Continue(i + 1)
  /\ UNCHANGED <<processes, pool, closed, nextPool, _kde,
                 _chain, _lnpost, _lnprop, _acceptance, _failed_p,
                 n_iter, lens0, it0, raised, rb_k>>
  /\ UNCHANGED burnin

\* line 286, the fit returns; then the loop header or the return
Refit ==
  /\ pc = "refit"
  /\ _kde' = OptimizedKde(p)
  /\ Continue(i)
  /\ UNCHANGED <<processes, pool, closed, nextPool, iterations,
                 _chain, _lnpost, _lnprop, _acceptance, _failed_p,
                 i, n_iter, lens0, it0, raised, rb_k>>
  /\ UNCHANGED burnin

\* line 286, the fit raises
RefitRaise ==
  /\ pc = "refit"
  /\ Escape("RefitError")
  /\ UNCHANGED fields
  /\ UNCHANGED burnin

\* lines 288-290: a KeyboardInterrupt anywhere in the loop body
InterruptInLoop ==
  /\ pc \in {"draw", "eval", "accept", "store_chain", "store_lnpost",
             "store_lnprop", "store_acceptance", "incr", "refit"}
  /\ CanRollback
  /\ RollbackTo(iterations)
  /\ Finish("KeyboardInterrupt")
  /\ UNCHANGED <<_failed_p, i, n_iter, lens0, it0, raised, rb_k>>
  /\ UNCHANGED burnin

\* ------------------------------------------------------------------ burnin
MaxPre == 3            \* the histories' largest length when burnin is called
MaxSteps == 2          \* largest max_steps argument of burnin; the step cap when it is None
MaxBurnInterval == 3   \* largest update_interval argument of burnin

\* np.inf, above every counter value of the model
Inf == 1000

\* line 142: the accepted jumps (on average) the window spans
WindowJumps == 10
\* line 147: .1 * nwalkers, as nwalkers divided by this
DecileParts == 10

\* round(num / den) for num >= 0, den > 0: the nearest integer, a half rounded up
RoundOf(num, den) == (2 * num + den) \div (2 * den)

\* int(num / den) for num >= 0, den > 0: the fraction is cut off
IntOf(num, den) == num \div den

\* np.mean(row) * nwalkers of a row of flags: the walkers accepted in it
Accepted(row) == Cardinality({w \in Walkers : row[w]})

\* a[-n:] for n >= 1
LastRows(a, n) == SubSeq(a, Len(a) - Min(n, Len(a)) + 1, Len(a))

\* np.mean(rows, axis=0)[w] * len(rows): the rows in which walker w accepted
AcceptedIn(rows, w) == Cardinality({j \in 1..Len(rows) : rows[j][w]})

\* np.sort(acceptance_rates)[index] * len(rows): the rates share the
\* denominator len(rows), so they sort as the walkers' counts do
LowCount(rows) ==
  LET index == IntOf(NWalkers, DecileParts)
      counts == {AcceptedIn(rows, w) : w \in Walkers}
  IN CHOOSE c \in counts :
       /\ Cardinality({w \in Walkers : AcceptedIn(rows, w) < c}) <= index
       /\ Cardinality({w \in Walkers : AcceptedIn(rows, w) <= c}) > index

\* line 116 with one step more
MaxIterOneMore(s, ms) == s + ms + 1

\* lines 114-116
MaxIterOf(s, ms) == IF ms = NoMax THEN Inf ELSE s + ms

\* lines 110-119
FirstInterval(ui, ms) == IF ms = NoMax THEN ui ELSE Min(ui, ms)

\* line 124 testing the counter alone
ExceedsNow(n, ti, mi) == n > mi

\* line 124
Exceeds(n, ti, mi) == n + ti > mi

\* the two samples have the same empirical distribution: ks_2samp gives the
\* statistic 0 and the p-value 1
SameSample(a, b) ==
  \A x \in Pos : Cardinality({w \in Walkers : a[w] = x}) = Cardinality({w \in Walkers : b[w] = x})

\* lines 104-121: burnin(p0, update_interval = ui, max_steps = ms) called by the
\* user of the Sampler, lnpost0 and lnprop0 left at their default None
BurninCall(arg_p0, ui, ms) ==
  /\ pc = "idle" /\ b_pc = "none" /\ burn_result = "none"
  /\ b_pc' = "loop"
  /\ burnin_p0' = arg_p0
  /\ burnin_lnpost0' = None
  /\ burnin_lnprop0' = None
  /\ burnin_update_interval' = ui
  /\ max_steps' = ms
  /\ test_interval' = FirstInterval(ui, ms)
  /\ start' = iterations
  /\ max_iter' = MaxIterOf(iterations, ms)
  /\ burned_in' = FALSE
  /\ burn_result' = "running"
  /\ UNCHANGED <<window, cycles, burn_ret>>
  /\ UNCHANGED <<fields, pc, locals, history>>

\* lines 122-128: the loop goes on and calls sample for test_interval iterations
BurninSample ==
  /\ b_pc = "loop"
  /\ ~burned_in
  /\ ~Exceeds(iterations, test_interval, max_iter)
  /\ max_steps = NoMax => iterations + test_interval <= start + MaxSteps
  /\ Sample(burnin_p0, burnin_lnpost0, burnin_lnprop0, test_interval, burnin_update_interval)
  /\ b_pc' = "sampling"
  /\ cycles' = cycles + 1
  /\ UNCHANGED <<burnin_p0, burnin_lnpost0, burnin_lnprop0, burnin_update_interval,
                 max_steps, test_interval, start, max_iter, burned_in, window,
                 burn_result, burn_ret>>

\* control leaves burnin; p, lnpost, lnprop of line 162 are those of the last
\* sample call, and unbound when there was none
BurninEnd(res) ==
  /\ b_pc' = "none"
  /\ burn_result' = IF res \in {"burned_in", "gave_up"} /\ cycles = 0
                     THEN "UnboundLocalError" ELSE res
  /\ burn_ret' = IF res \in {"burned_in", "gave_up"} /\ cycles # 0 THEN ret ELSE None
  /\ UNCHANGED <<burnin_p0, burnin_lnpost0, burnin_lnprop0, burnin_update_interval,
                 max_steps, test_interval, start, max_iter, burned_in, window, cycles>>
  /\ UNCHANGED <<fields, pc, locals, history>>

\* lines 122, 159-162: the test passed, the loop ends and burnin returns
BurninReturn ==
  /\ b_pc = "loop"
  /\ burned_in
  /\ BurninEnd("burned_in")

\* lines 124-125, 159-162: the next interval does not fit; "Burnin unsuccessful."
BurninGiveUp ==
  /\ b_pc = "loop"
  /\ ~burned_in
  /\ Exceeds(iterations, test_interval, max_iter)
  /\ BurninEnd("gave_up")

\* line 127: the sample call raised; burnin has no handler
BurninRaise ==
  /\ b_pc = "sampling" /\ pc = "idle"
  /\ result # "ok"
  /\ BurninEnd(result)

\* lines 127-136: sample returned; the two-sample K-S test of p0 against p.  Its
\* p-value is 1 for equal samples and otherwise the test's to decide.
BurninTest ==
  /\ b_pc = "sampling" /\ pc = "idle"
  /\ result = "ok"
  /\ burned_in' \in (IF SameSample(burnin_p0, ret[1]) THEN {TRUE} ELSE BOOLEAN)
  /\ b_pc' = IF burned_in' THEN "loop" ELSE "adapt"
  /\ UNCHANGED <<burnin_p0, burnin_lnpost0, burnin_lnprop0, burnin_update_interval,
                 max_steps, test_interval, start, max_iter, window,
                 cycles, burn_result, burn_ret>>
  /\ UNCHANGED <<fields, pc, locals, history>>

\* lines 139-157: the test failed; the window, the next test interval, and the
\* cycle's result as the next cycle's start.  acceptance[-1] of an empty
\* history is an IndexError; a last row without an accepted walker has mean 0,
\* 10 * 1/0. is inf (numpy) and int(inf) an OverflowError.
BurninAdapt ==
  /\ b_pc = "adapt"
  /\ IF _acceptance = << >>
     THEN BurninEnd("IndexError")
     ELSE IF Accepted(_acceptance[Len(_acceptance)]) = 0
     THEN BurninEnd("OverflowError")
     ELSE LET w == IntOf(WindowJumps * NWalkers, Accepted(_acceptance[Len(_acceptance)]))
              rows == LastRows(_acceptance, w)
              low == LowCount(rows)
          IN /\ window' = w
             /\ test_interval' = IF low > 0 THEN IntOf(Len(rows), low) ELSE w
             /\ burnin_p0' = ret[1] /\ burnin_lnpost0' = ret[2] /\ burnin_lnprop0' = ret[3]
             /\ b_pc' = "loop"
             /\ UNCHANGED <<burnin_update_interval, max_steps, start, max_iter,
                            burned_in, cycles, burn_result, burn_ret>>
             /\ UNCHANGED <<fields, pc, locals, history>>

\* sample(p0, iterations = k, update_interval = ui) called by the user before burnin
SampleBefore(arg_p0, k, ui) ==
  /\ b_pc = "none" /\ burn_result = "none"
  /\ Len(_chain) + k <= MaxPre
  /\ Sample(arg_p0, None, None, k, ui)
  /\ UNCHANGED burnin

\* ------------------------------------------------------------ specification
\* sample and rollback called by the user in any order, failures and
\* interrupts included; no burnin call
Next ==
  \/ \E k \in 0..iterations : Rollback(k)
  \/ \E arg_p0 \in Batches \cup {None}, given_lnpost0 \in BOOLEAN,
        given_lnprop0 \in BOOLEAN, k \in 0..MaxIter, ui \in 1..MaxInterval :
       SampleCall(arg_p0, given_lnpost0, given_lnprop0, k, ui)
  \/ InitEval
  \/ InitEvalRaise
  \/ AllocChain
  \/ AllocLnpost
  \/ AllocLnprop
  \/ AllocAcceptance
  \/ InterruptBeforeLoop
  \/ Draw
  \/ DrawRaise
  \/ \E w \in Walkers : EvalWorker(w)
  \/ Eval
  \/ EvalRaise
  \/ Accept
  \/ StoreChain
  \/ StoreLnpost
  \/ StoreLnprop
  \/ StoreAcceptance
  \/ Incr
  \/ Refit
  \/ RefitRaise
  \/ InterruptInLoop

Spec == Init /\ [][Next]_vars

\* a failure or an interrupt of the sample call that burnin made
InBurnin == b_pc = "sampling"

\* sample calls that succeed, then one burnin call in which the sample calls
\* it makes can fail or be interrupted
NextBurnin ==
  \/ \E arg_p0 \in Batches, k \in 1..MaxIter, ui \in 1..MaxInterval :
       SampleBefore(arg_p0, k, ui)
  \/ \E arg_p0 \in Batches, ui \in 1..MaxBurnInterval, ms \in (0..MaxSteps) \cup {NoMax} :
       BurninCall(arg_p0, ui, ms)
  \/ BurninSample
  \/ BurninTest
  \/ BurninRaise
  \/ BurninAdapt
  \/ BurninReturn
  \/ BurninGiveUp
  \/ InitEval
  \/ InBurnin /\ InitEvalRaise
  \/ AllocChain
  \/ AllocLnpost
  \/ AllocLnprop
  \/ AllocAcceptance
  \/ InBurnin /\ InterruptBeforeLoop
  \/ Draw
  \/ InBurnin /\ DrawRaise
  \/ \E w \in Walkers : EvalWorker(w)
  \/ Eval
  \/ InBurnin /\ EvalRaise
  \/ Accept
  \/ StoreChain
  \/ StoreLnpost
  \/ StoreLnprop
  \/ StoreAcceptance
  \/ Incr
  \/ Refit
  \/ InBurnin /\ RefitRaise
  \/ InBurnin /\ InterruptInLoop

SpecBurnin == Init /\ [][NextBurnin]_vars

\* ================================================================ claims
SameLength(n) == Lens = <<n, n, n, n>>
Idle == pc = "idle"
InLoop == pc \in {"draw", "eval", "accept", "store_chain", "store_lnpost",
                  "store_lnprop", "store_acceptance", "incr", "refit"}

\* C1: whenever control is with the caller, chain, lnpost, lnprop and acceptance
\* all have the length `iterations`.
C1_LengthIsIterations == Idle => SameLength(iterations)

\* C2: after a sample(iterations=k) that returns normally, chain is exactly k
\* longer than before the call and the other three histories are as long as chain.
C2_SuccessAddsK ==
  (Idle /\ result = "ok") => SameLength(lens0[1] + n_iter)

\* C3: when the evaluation of iteration j's candidate batch raises, the four
\* histories are cut back to the last committed iteration (the j-1 iterations of
\* this call kept, no pre-allocated slot left), and the next sample call stores
\* its first snapshot at the index equal to that length.
C3_EvalFailureRollsBack ==
  /\ (Idle /\ result = "EvalError") =>
        (SameLength(iterations) /\ iterations = it0 + i)
  /\ (after = "EvalError" /\ pc = "store_chain" /\ i = 0) =>
        (iterations = lens0[1] /\ CanStore(_chain))

\* C4 as stated: when the posterior function raises in any batch of a sample
\* call, chain is left at its pre-call length.
C4_ChainAtPreCallLength ==
  (Idle /\ result \in {"InitEvalError", "EvalError"}) => Len(_chain) = lens0[1]

\* C4 amended: when the posterior function raises in the initial evaluation of
\* p0, chain is left at its pre-call length; when it raises in iteration j's
\* candidate batch, chain is left cut back to the iteration counter, which is the
\* pre-call counter plus the j-1 iterations this call committed (or at the
\* pre-call length plus the requested iterations, when that is smaller).
C4_ChainAtCommittedLength ==
  /\ (Idle /\ result = "InitEvalError") => Len(_chain) = lens0[1]
  /\ (Idle /\ result = "EvalError") =>
        /\ iterations = it0 + i
        /\ Len(_chain) = Min(lens0[1] + n_iter, iterations)
        /\ (lens0[1] = it0 => Len(_chain) = lens0[1] + i)

\* C4 witness: the evaluation raised in the second iteration of a call, after
\* one committed iteration, and chain is one longer than before the call.
C4_Witness ==
  Idle /\ result = "EvalError" /\ i = 1 /\ lens0[1] = it0 /\ Len(_chain) = lens0[1] + 1

\* C5: failed_p is None until an evaluation fails, and after the posterior
\* function raised during a batch evaluated by sample, failed_p is that batch.
C5_FailedBatchIsRaisedBatch ==
  /\ (Idle /\ result \in {"InitEvalError", "EvalError"}) => _failed_p = raised
  /\ (result = "none") => _failed_p = None

\* C6: a KeyboardInterrupt at any point of a sample call leaves the four
\* histories at the last committed iteration, with equal lengths, and the worker
\* pool (when there is one) replaced by a new instance.
C6_InterruptRollsBack ==
  (Idle /\ result = "KeyboardInterrupt") =>
     /\ SameLength(iterations)
     /\ (m # 0 => (pool # m /\ m \in closed))

\* C7: rollback(k) with 0 <= k <= iterations leaves the four histories at length
\* k and the counter at k; the next sample call stores its first snapshot at
\* index k and has chain at length k + (iterations requested).
C7_RollbackResetsCounter ==
  /\ (Idle /\ result = "rollback") => (SameLength(rb_k) /\ iterations = rb_k)
  /\ (after = "rollback" /\ pc = "store_chain" /\ i = 0) => iterations = rb_k
  /\ (after = "rollback" /\ InLoop) => Len(_chain) = rb_k + n_iter

\* C8: when sample raises an error to the caller (a failure of the proposal draw
\* or of the refit included), the four histories are back at the last committed
\* length: none of them keeps a slot that the call pre-allocated and did not
\* write, so none is longer than on entry plus the iterations the call committed.
C8_FailureRestoresHistories ==
  (Idle /\ result \in {"AttributeError", "InitEvalError", "DrawError",
                       "EvalError", "IndexError", "RefitError"})
     => \A a \in 1..4 : Lens[a] <= lens0[a] + i

\* a step in which Sampler.rollback runs: called by the caller or by sample
RollbackStep ==
  \/ \E k \in 0..MaxLen : Rollback(k)
  \/ EvalRaise
  \/ InterruptInLoop

\* C9: when the Sampler evaluates through a pool, every rollback closes the
\* pool in use and installs a new instance, and no batch is dispatched to a
\* closed pool.
C9_RollbackReplacesPool ==
  [][ /\ (RollbackStep /\ pool # 0) => (pool' # pool /\ pool \in closed')
      /\ (pc' \in {"init_eval", "eval"} => m' \notin closed') ]_vars

\* C10: a walker whose log Metropolis-Hastings ratio is greater than 0 is
\* accepted, whatever the uniform draws of the iteration are: its flag is set in
\* acc and in the acceptance row stored for the iteration.
C10_PositiveRatioAccepted ==
  \A w \in Walkers :
    /\ (pc \in {"store_chain", "store_lnpost", "store_lnprop", "store_acceptance", "incr"}
          /\ ln_mh_ratio[w] > 0) => acc[w]
    /\ (pc = "incr" /\ ln_mh_ratio[w] > 0) => _acceptance[iterations + 1][w]

\* C10 witness: an iteration with a positive ratio has stored its acceptance row.
C10_Witness ==
  /\ pc = "incr"
  /\ \E w \in Walkers : ln_mh_ratio[w] > 0 /\ _acceptance[iterations + 1][w]

\* the iteration in progress has its accept step behind it and is being stored
Storing == pc \in {"store_chain", "store_lnpost", "store_lnprop", "store_acceptance", "incr"}

\* p, lnpost and lnprop a call starts its first iteration with: the p0 passed
\* (or the drawn one), the lnpost0 / lnprop0 passed or else their evaluation
InitialValues(first) ==
  <<first,
    IF args0[2] # None THEN args0[2] ELSE ResultsLnPost(first),
    IF args0[3] # None THEN args0[3] ELSE ResultsLnProp(_kde, first)>>

\* C15: when the four rows of an iteration t are stored, an accepted walker's
\* chain, lnpost and lnprop entries are the candidate and its evaluated values,
\* and a walker that was not accepted has the entries it had before the step:
\* those of row t-1 of the same call, or the values the call started with.
C15_StoredRowFollowsFlag ==
  pc = "incr" =>
    LET t == iterations + 1 IN
    /\ lnpost_p = ResultsLnPost(p_p) /\ lnprop_p = ResultsLnProp(_kde, p_p)
    /\ \A w \in Walkers :
         IF _acceptance[t][w]
         THEN /\ _chain[t][w] = p_p[w]
              /\ _lnpost[t][w] = lnpost_p[w]
              /\ _lnprop[t][w] = lnprop_p[w]
         ELSE /\ _chain[t][w] = prev[1][w]
              /\ _lnpost[t][w] = prev[2][w]
              /\ _lnprop[t][w] = prev[3][w]
    /\ IF i = 0
       THEN /\ prev = InitialValues(prev[1])
            /\ args0[1] # None => prev[1] = args0[1]
       ELSE prev = <<_chain[t - 1], _lnpost[t - 1], _lnprop[t - 1]>>

\* the second iteration of a call rejects a walker that moved in the first: its
\* stored row repeats the previous row and differs from the candidate
C15_Witness ==
  /\ pc = "incr" /\ i = 1
  /\ \E w \in Walkers :
       /\ _acceptance[iterations][w] /\ ~_acceptance[iterations + 1][w]
       /\ _chain[iterations + 1][w] = _chain[iterations][w]
       /\ _chain[iterations + 1][w] # p_p[w]

\* C16: a walker whose ratio is not positive and whose uniform draw is zero
\* (log -inf) is not accepted and keeps the values it had before the step.
C16_ZeroDrawNotAccepted ==
  Storing =>
    \A w \in Walkers :
      (ln_mh_ratio[w] <= 0 /\ uniform_log[w] = NegInf) =>
        (~acc[w] /\ p[w] = prev[1][w] /\ lnpost[w] = prev[2][w] /\ lnprop[w] = prev[3][w])

\* C17: the proposal is built from the initial positions on entry of a call
\* that finds none; a step that moves the counter to a multiple of
\* update_interval goes on to the refit, and no other step does; the refit
\* replaces the proposal by the fit of the ensemble after the step (or fails and
\* ends the call); no other step changes the proposal.
C17_ProposalReplacedWhenDue ==
  [][ /\ (pc = "idle" /\ pc' # "idle") => _kde' = (IF _kde = None THEN OptimizedKde(p') ELSE _kde)
      /\ (pc = "idle" /\ pc' = "idle") => _kde' = _kde
      /\ (iterations' # iterations) =>
           /\ iterations' = iterations + 1
           /\ (pc' = "refit") = (iterations' % update_interval = 0)
      /\ (iterations' = iterations) => pc' # "refit"
      /\ (pc = "refit") =>
           \/ _kde' = OptimizedKde(p) /\ ((pc' = "idle") => result' = "ok")
           \/ _kde' = _kde /\ pc' = "idle" /\ result' \in {"RefitError", "KeyboardInterrupt"}
      /\ (pc \notin {"idle", "refit"}) => _kde' = _kde
    ]_vars

\* the first iteration of a call with update_interval 2 on a Sampler whose
\* counter was 1: the counter is 2 and the refit is due, the call's own index is 1
C17_Witness ==
  pc = "refit" /\ update_interval = 2 /\ it0 = 1 /\ i = 1 /\ iterations = 2

C20_ArgumentsUntouched ==
  pc # "idle" => <<p0, lnpost0, lnprop0>> = args0

\* ------------------------------------------------------------ burnin claims
\* the results of a sample call that did not return
SampleFailures == {"AttributeError", "InitEvalError", "DrawError", "EvalError",
                   "IndexError", "RefitError", "KeyboardInterrupt"}

\* the burnin call has ended, and not by a failure or interrupt of a sample call
BurninEnded == burn_result \notin ({"none", "running"} \cup SampleFailures)

\* C11: a burnin call with max_steps given in which no sample call fails ends
\* by a normal return, burned in or given up, whatever walkers were accepted.
C11_BurninReturnsNormally ==
  (BurninEnded /\ max_steps # NoMax) => burn_result \in {"burned_in", "gave_up"}

\* C12: in a burnin call with max_steps given the counter never exceeds its
\* value on entry plus max_steps.
C12_WithinMaxSteps ==
  (burn_result # "none" /\ max_steps # NoMax) => iterations <= start + max_steps

\* after two sample cycles the burnin call has used up its max_steps
C12_Witness ==
  b_pc = "adapt" /\ cycles = 2 /\ max_steps = 2 /\ iterations = start + max_steps

\* a next test interval has been computed after a cycle whose test failed
Adapted == b_pc = "loop" /\ cycles >= 1 /\ ~burned_in

\* C13 as claimed: a test interval computed after a non-converged cycle is at
\* most the steps left, start + max_steps - iterations.
C13_NextIntervalWithinBudget ==
  (Adapted /\ max_steps # NoMax) => test_interval <= start + max_steps - iterations

\* C13: every test interval a sample cycle is run with is at most the steps
\* left when the cycle starts; a computed interval that is more than the steps
\* left is not run: the call gives up, and it gives up for no other reason.
C13_RunIntervalWithinBudget ==
  /\ (b_pc = "sampling" /\ max_steps # NoMax) =>
       (n_iter = test_interval /\ test_interval <= start + max_steps - it0)
  /\ (burn_result = "gave_up") =>
       (max_steps # NoMax /\ test_interval > start + max_steps - iterations)

\* the interval computed after the first cycle was more than the steps left
C13_Witness ==
  /\ burn_result = "gave_up" /\ cycles = 1 /\ iterations < start + max_steps
  /\ test_interval > start + max_steps - iterations

\* C14: a burnin call with 1 <= max_steps < update_interval in which the sample
\* call does not fail runs one sample cycle of max_steps iterations and returns
\* that cycle's tuple, whatever the test and the acceptances of the cycle.
C14_ShortBudgetOneCycle ==
  (BurninEnded /\ 1 <= max_steps /\ max_steps < burnin_update_interval) =>
    /\ burn_result \in {"burned_in", "gave_up"}
    /\ cycles = 1
    /\ iterations = start + max_steps
    /\ burn_ret = ret /\ ret # None

\* the counts the adaptation of lines 142-155 reads off the acceptance history
LastAccepted == Accepted(_acceptance[Len(_acceptance)])
WindowRows == LastRows(_acceptance, window)

\* v is an integer nearest to num / den (either neighbour of a half)
IsNearest(v, num, den) == 2 * v * den - 2 * num <= den /\ 2 * num - 2 * v * den <= den

IsTruncation(v, num, den) == v * den <= num /\ num < (v + 1) * den

====
